---- MODULE Spec2Model ----
(***************************************************************************)
(* Task store of the todo backend, reached through two call paths: the     *)
(* agent tools of backend/mcp/tools.py and the HTTP routes of              *)
(* backend/routes/tasks.py.  One action per tool / route handler; every    *)
(* handler runs in its own session and commits at most once, so each       *)
(* action is one atomic step on the table of tasks.                        *)
(*                                                                         *)
(* Three specifications share the handlers and differ in what the callers  *)
(* draw from:                                                              *)
(*   Spec        all the handlers of both paths, two users;                *)
(*   SpecClock   the tools and the toggle route, with the clock running;   *)
(*   SpecFields  the creating handlers, inputs on the length limits.       *)
(***************************************************************************)
EXTENDS Integers, Sequences, FiniteSets, TLC

VARIABLES tasks, nextId, now, deleted, last

vars == <<tasks, nextId, now, deleted, last>>

(***************************************************************************)
(* Bounds of the model.                                                    *)
(***************************************************************************)
\* ids the table hands out when all the handlers are called
MaxTasks == 2
\* largest limit argument given to list_tasks
MaxLimit == 2
\* largest reading of the clock (datetime.utcnow), and the ids handed out
\* while it runs
MaxClock == 2
MaxClockTasks == 1
\* ids the table hands out where the inputs sit on the length limits
MaxFieldTasks == 1

(***************************************************************************)
(* Program constants.                                                      *)
(***************************************************************************)
TITLE_MAX == 200
DESCRIPTION_MAX == 1000
TITLE_MIN == 1
HTTP_403_FORBIDDEN == 403
HTTP_404_NOT_FOUND == 404
HTTP_422_UNPROCESSABLE == 422
HTTP_200_OK == 200
HTTP_201_CREATED == 201
HTTP_204_NO_CONTENT == 204

Users == {"A", "B"}

(***************************************************************************)
(* Strings are sequences of one-character strings; len is Len and          *)
(* str.strip() removes the leading and the trailing whitespace.            *)
(***************************************************************************)
Whitespace == {" ", "\t"}

Rep(c, n) == [i \in 1..n |-> c]

RECURSIVE lstrip(_)
lstrip(s) ==
  IF s # <<>> /\ Head(s) \in Whitespace THEN lstrip(Tail(s)) ELSE s

RECURSIVE rstrip(_)
rstrip(s) ==
  IF s # <<>> /\ s[Len(s)] \in Whitespace
    THEN rstrip(SubSeq(s, 1, Len(s) - 1))
    ELSE s

strip(s) == rstrip(lstrip(s))

\* Optional[str]: None, or a given string
None == [given |-> FALSE, val |-> <<>>]
Some(s) == [given |-> TRUE, val |-> s]

(***************************************************************************)
(* Inputs the callers draw from.  Titles and descriptions sit on both      *)
(* sides of the tests the handlers make: empty, accepted, and one          *)
(* character over the limit.                                               *)
(***************************************************************************)
TitleInputs == {<<>>, <<"a">>, Rep("x", TITLE_MAX + 1)}
DescInputs == {<<>>, <<"d">>, Rep("d", DESCRIPTION_MAX + 1)}
\* the same on the limits themselves: blank, padded, the longest title and
\* description accepted, and each of these with one more character of padding
BoundaryTitles ==
  {<<>>, <<" ">>, <<" ", "a", " ">>, Rep("x", TITLE_MAX),
   <<" ">> \o Rep("x", TITLE_MAX), Rep("x", TITLE_MAX + 1)}
BoundaryDescs ==
  {<<>>, <<" ", "d">>, Rep("d", DESCRIPTION_MAX),
   Rep("d", DESCRIPTION_MAX) \o <<" ">>, Rep("d", DESCRIPTION_MAX + 1)}
\* an argument that may be left out
Opt(S) == {None} \cup {Some(x) : x \in S}
Limits == 0..MaxLimit

\* what the callers of one specification draw from: titles, descriptions,
\* and how many ids the table hands out
Lifecycle ==
  [titles |-> TitleInputs \ {<<>>}, descs |-> DescInputs, ids |-> MaxTasks]
Timed ==
  [titles |-> TitleInputs, descs |-> DescInputs \ {<<"d">>},
   ids |-> MaxClockTasks]
OnLimits ==
  [titles |-> BoundaryTitles, descs |-> BoundaryDescs, ids |-> MaxFieldTasks]

(***************************************************************************)
(* The table of tasks: a function from the ids present to their rows.      *)
(***************************************************************************)
\* models.Task(user_id=, title=, description=): the defaults of the row
Task(id, user_id, title, description) ==
  [id |-> id, user_id |-> user_id, title |-> title,
   description |-> description, completed |-> FALSE,
   created_at |-> now, updated_at |-> now]


\* a delete that is never committed
session_delete_uncommitted(task_id) == tasks

\* session.delete(task); session.commit()
session_delete(task_id) == [i \in DOMAIN tasks \ {task_id} |-> tasks[i]]

\* session.add(task); session.commit() of a row already in the table
session_update(task) == [tasks EXCEPT ![task.id] = task]

\* session.add(task); session.commit() of a new row: the table assigns the id
session_insert(user_id, title, description) ==
  tasks @@ (nextId :> Task(nextId, user_id, title, description))

\* what a handler leaves behind: the table, the id counter and what it returns
Outcome(t, n, r) == [tasks |-> t, nextId |-> n, result |-> r]

(***************************************************************************)
(* backend/mcp/tools.py                                                    *)
(***************************************************************************)
ToolError(msg) == Outcome(tasks, nextId, [success |-> FALSE, error |-> msg])

MsgTitleRequired == <<"Task title is required">>
MsgTitleTooLong == <<"Task title must be 200 characters or less">>
MsgDescTooLong == <<"Description must be 1000 characters or less">>
MsgNoField == <<"At least one field (title or description) must be provided">>
MsgNotFound == <<"Task not found">>
MsgIdNotFound(task_id) == <<"Task with ID ", ToString(task_id), " not found">>
MsgAdded(title) == <<"Task '">> \o title \o <<"' has been added successfully.">>
MsgAlreadyCompleted(title) == <<"Task '">> \o title \o <<"' was already completed.">>
MsgMarkedCompleted(title) == <<"Task '">> \o title \o <<"' has been marked as completed.">>
MsgDeleted(title) == <<"Task '">> \o title \o <<"' has been deleted.">>
MsgUpdated(title) == <<"Task '">> \o title \o <<"' has been updated.">>


\* add_task measuring the title after trimming it
add_task_trim_first(user_id, title, description) ==
  IF title = <<>> \/ strip(title) = <<>>
    THEN ToolError(MsgTitleRequired)
  ELSE IF Len(strip(title)) > TITLE_MAX
    THEN ToolError(MsgTitleTooLong)
  ELSE IF Len(strip(description)) > DESCRIPTION_MAX
    THEN ToolError(MsgDescTooLong)
  ELSE
    LET stored == session_insert(user_id, strip(title), strip(description))
        task == stored[nextId]
    IN Outcome(stored, nextId + 1,
         [success |-> TRUE,
          task |-> [id |-> task.id, title |-> task.title,
                    description |-> task.description,
                    completed |-> task.completed,
                    created_at |-> task.created_at],
          message |-> MsgAdded(task.title)])

add_task(user_id, title, description) ==
  IF title = <<>> \/ strip(title) = <<>>
    THEN ToolError(MsgTitleRequired)
  ELSE IF Len(title) > TITLE_MAX
    THEN ToolError(MsgTitleTooLong)
  ELSE IF Len(description) > DESCRIPTION_MAX
    THEN ToolError(MsgDescTooLong)
  ELSE
    LET stored == session_insert(user_id, strip(title),
                     IF description # <<>> THEN strip(description) ELSE <<>>)
        task == stored[nextId]
    IN Outcome(stored, nextId + 1,
         [success |-> TRUE,
          task |-> [id |-> task.id, title |-> task.title,
                    description |-> task.description,
                    completed |-> task.completed,
                    created_at |-> task.created_at],
          message |-> MsgAdded(task.title)])


\* complete_task without its early return for a completed task
complete_task_always_writes(user_id, task_id) ==
  IF task_id \notin DOMAIN tasks
    THEN ToolError(MsgIdNotFound(task_id))
  ELSE IF tasks[task_id].user_id # user_id
    THEN ToolError(MsgNotFound)
  ELSE
    LET task == [tasks[task_id] EXCEPT !.completed = TRUE, !.updated_at = now]
    IN Outcome(session_update(task), nextId,
         [success |-> TRUE,
          task |-> [id |-> task.id, title |-> task.title,
                    completed |-> task.completed],
          message |-> IF tasks[task_id].completed
                        THEN MsgAlreadyCompleted(task.title)
                        ELSE MsgMarkedCompleted(task.title)])

complete_task(user_id, task_id) ==
  IF task_id \notin DOMAIN tasks
    THEN ToolError(MsgIdNotFound(task_id))
  ELSE IF tasks[task_id].user_id # user_id
    THEN ToolError(MsgNotFound)
  ELSE IF tasks[task_id].completed
    THEN Outcome(tasks, nextId,
           [success |-> TRUE,
            task |-> [id |-> task_id, title |-> tasks[task_id].title,
                      completed |-> tasks[task_id].completed],
            message |-> MsgAlreadyCompleted(tasks[task_id].title)])
  ELSE
    LET task == [tasks[task_id] EXCEPT !.completed = TRUE, !.updated_at = now]
    IN Outcome(session_update(task), nextId,
         [success |-> TRUE,
          task |-> [id |-> task.id, title |-> task.title,
                    completed |-> task.completed],
          message |-> MsgMarkedCompleted(task.title)])


\* delete_task without the comparison of the owner
delete_task_any_owner(user_id, task_id) ==
  IF task_id \notin DOMAIN tasks
    THEN ToolError(MsgIdNotFound(task_id))
  ELSE Outcome(session_delete(task_id), nextId,
         [success |-> TRUE, deleted_task_id |-> task_id,
          message |-> MsgDeleted(tasks[task_id].title)])

delete_task(user_id, task_id) ==
  IF task_id \notin DOMAIN tasks
    THEN ToolError(MsgIdNotFound(task_id))
  ELSE IF tasks[task_id].user_id # user_id
    THEN ToolError(MsgNotFound)
  ELSE Outcome(session_delete(task_id), nextId,
         [success |-> TRUE, deleted_task_id |-> task_id,
          message |-> MsgDeleted(tasks[task_id].title)])


\* update_task checking the description only after the title is written
update_task_late_check(user_id, task_id, title, description) ==
  IF ~title.given /\ ~description.given
    THEN ToolError(MsgNoField)
  ELSE IF title.given /\ Len(title.val) > TITLE_MAX
    THEN ToolError(MsgTitleTooLong)
  ELSE IF task_id \notin DOMAIN tasks
    THEN ToolError(MsgIdNotFound(task_id))
  ELSE IF tasks[task_id].user_id # user_id
    THEN ToolError(MsgNotFound)
  ELSE
    LET old == tasks[task_id]
        titled == [old EXCEPT
                     !.title = IF title.given THEN strip(title.val)
                                              ELSE old.title,
                     !.updated_at = now]
        task == [titled EXCEPT
                   !.description = IF description.given
                                     THEN strip(description.val)
                                     ELSE old.description]
    IN IF description.given /\ Len(description.val) > DESCRIPTION_MAX
         THEN Outcome(session_update(titled), nextId,
                [success |-> FALSE, error |-> MsgDescTooLong])
         ELSE Outcome(session_update(task), nextId,
                [success |-> TRUE,
                 task |-> [id |-> task.id, title |-> task.title,
                           description |-> task.description,
                           completed |-> task.completed,
                           updated_at |-> task.updated_at],
                 message |-> MsgUpdated(task.title)])

update_task(user_id, task_id, title, description) ==
  IF ~title.given /\ ~description.given
    THEN ToolError(MsgNoField)
  ELSE IF title.given /\ Len(title.val) > TITLE_MAX
    THEN ToolError(MsgTitleTooLong)
  ELSE IF description.given /\ Len(description.val) > DESCRIPTION_MAX
    THEN ToolError(MsgDescTooLong)
  ELSE IF task_id \notin DOMAIN tasks
    THEN ToolError(MsgIdNotFound(task_id))
  ELSE IF tasks[task_id].user_id # user_id
    THEN ToolError(MsgNotFound)
  ELSE
    LET old == tasks[task_id]
        task == [old EXCEPT
                   !.title = IF title.given THEN strip(title.val) ELSE old.title,
                   !.description = IF description.given
                                     THEN strip(description.val)
                                     ELSE old.description,
                   !.updated_at = now]
    IN Outcome(session_update(task), nextId,
         [success |-> TRUE,
          task |-> [id |-> task.id, title |-> task.title,
                    description |-> task.description,
                    completed |-> task.completed,
                    updated_at |-> task.updated_at],
          message |-> MsgUpdated(task.title)])

Min(a, b) == IF a < b THEN a ELSE b


\* the query without its filter on completed
list_rows_unfiltered(user_id, include_completed) ==
  {i \in DOMAIN tasks : tasks[i].user_id = user_id}

\* select(Task).where(Task.user_id == user_id)[.where(Task.completed == False)]
list_rows(user_id, include_completed) ==
  {i \in DOMAIN tasks :
     /\ tasks[i].user_id = user_id
     /\ (include_completed \/ ~tasks[i].completed)}

\* statement.limit(limit): no ORDER BY, so any limit-many of the rows
limited(rows, limit) ==
  {chosen \in SUBSET rows :
     Cardinality(chosen) = Min(limit, Cardinality(rows))}

MsgFound(total, pending, completed) ==
  <<"Found ", ToString(total), " task(s): ", ToString(pending),
    " pending, ", ToString(completed), " completed.">>

\* the envelope list_tasks builds from the rows the query returned
list_envelope(chosen) ==
  LET task_list == {[id |-> tasks[i].id, title |-> tasks[i].title,
                     description |-> tasks[i].description,
                     completed |-> tasks[i].completed,
                     created_at |-> tasks[i].created_at] : i \in chosen}
      pending_count == Cardinality({t \in task_list : ~t.completed})
      completed_count == Cardinality({t \in task_list : t.completed})
  IN [success |-> TRUE, tasks |-> task_list,
      total |-> Cardinality(task_list),
      pending |-> pending_count, completed |-> completed_count,
      message |-> MsgFound(Cardinality(task_list), pending_count,
                           completed_count)]

\* every outcome list_tasks can have in the current state
list_tasks(user_id, include_completed, limit) ==
  {Outcome(tasks, nextId, list_envelope(chosen)) :
     chosen \in limited(list_rows(user_id, include_completed), limit)}

(***************************************************************************)
(* backend/routes/tasks.py                                                 *)
(***************************************************************************)
HTTPException(status_code, detail) ==
  [raised |-> TRUE, status_code |-> status_code, detail |-> detail]

Response(status_code, body) ==
  [raised |-> FALSE, status_code |-> status_code, body |-> body]

HttpError(status_code, detail) ==
  Outcome(tasks, nextId, HTTPException(status_code, detail))

DetailDenied == <<"Access denied: user_id mismatch">>
DetailNotFound == <<"Task not found">>
DetailInvalid == <<"validation error">>

\* TaskCreate: title min_length=1, max_length=200; description max_length=1000
TaskCreate(title, description) ==
  /\ Len(title) >= TITLE_MIN
  /\ Len(title) <= TITLE_MAX
  /\ Len(description) <= DESCRIPTION_MAX

\* TaskUpdate: both fields optional, the same lengths when given
TaskUpdate(title, description) ==
  /\ title.given => (Len(title.val) >= TITLE_MIN /\ Len(title.val) <= TITLE_MAX)
  /\ description.given => Len(description.val) <= DESCRIPTION_MAX

\* TRUE when verify_user_access raises 403
verify_user_access(url_user_id, token_user_id) == url_user_id # token_user_id

\* TRUE when get_task_or_404 raises 404
get_task_or_404(user_id, task_id) ==
  IF task_id \notin DOMAIN tasks
    THEN TRUE
  ELSE IF tasks[task_id].user_id # user_id
    THEN TRUE
  ELSE FALSE

http_list_tasks(user_id, token_user_id) ==
  IF verify_user_access(user_id, token_user_id)
    THEN HttpError(HTTP_403_FORBIDDEN, DetailDenied)
  ELSE Outcome(tasks, nextId,
         Response(HTTP_200_OK,
           {tasks[i] : i \in {j \in DOMAIN tasks : tasks[j].user_id = user_id}}))

http_create_task(user_id, token_user_id, title, description) ==
  IF ~TaskCreate(title, description)
    THEN HttpError(HTTP_422_UNPROCESSABLE, DetailInvalid)
  ELSE IF verify_user_access(user_id, token_user_id)
    THEN HttpError(HTTP_403_FORBIDDEN, DetailDenied)
  ELSE
    LET stored == session_insert(user_id, title, description)
    IN Outcome(stored, nextId + 1, Response(HTTP_201_CREATED, stored[nextId]))

http_get_task(user_id, token_user_id, task_id) ==
  IF verify_user_access(user_id, token_user_id)
    THEN HttpError(HTTP_403_FORBIDDEN, DetailDenied)
  ELSE IF get_task_or_404(user_id, task_id)
    THEN HttpError(HTTP_404_NOT_FOUND, DetailNotFound)
  ELSE Outcome(tasks, nextId, Response(HTTP_200_OK, tasks[task_id]))

http_update_task(user_id, token_user_id, task_id, title, description) ==
  IF ~TaskUpdate(title, description)
    THEN HttpError(HTTP_422_UNPROCESSABLE, DetailInvalid)
  ELSE IF verify_user_access(user_id, token_user_id)
    THEN HttpError(HTTP_403_FORBIDDEN, DetailDenied)
  ELSE IF get_task_or_404(user_id, task_id)
    THEN HttpError(HTTP_404_NOT_FOUND, DetailNotFound)
  ELSE
    LET old == tasks[task_id]
        task == [old EXCEPT
                   !.title = IF title.given THEN title.val ELSE old.title,
                   !.description = IF description.given
                                     THEN description.val
                                     ELSE old.description,
                   !.updated_at = now]
    IN Outcome(session_update(task), nextId, Response(HTTP_200_OK, task))

http_delete_task(user_id, token_user_id, task_id) ==
  IF verify_user_access(user_id, token_user_id)
    THEN HttpError(HTTP_403_FORBIDDEN, DetailDenied)
  ELSE IF get_task_or_404(user_id, task_id)
    THEN HttpError(HTTP_404_NOT_FOUND, DetailNotFound)
  ELSE Outcome(session_delete(task_id), nextId,
         Response(HTTP_204_NO_CONTENT, <<>>))

toggle_complete(user_id, token_user_id, task_id) ==
  IF verify_user_access(user_id, token_user_id)
    THEN HttpError(HTTP_403_FORBIDDEN, DetailDenied)
  ELSE IF get_task_or_404(user_id, task_id)
    THEN HttpError(HTTP_404_NOT_FOUND, DetailNotFound)
  ELSE
    LET task == [tasks[task_id] EXCEPT
                   !.completed = ~tasks[task_id].completed,
                   !.updated_at = now]
    IN Outcome(session_update(task), nextId, Response(HTTP_200_OK, task))

(***************************************************************************)
(* The calls.  last is the call handled by the latest step: the path it    *)
(* came in by, the authenticated caller, its arguments and what it         *)
(* returned (an envelope on the tool path; a response or a raised          *)
(* HTTPException on the HTTP path).                                        *)
(***************************************************************************)
Request(path, op, user, url) ==
  [path |-> path, op |-> op, user |-> user, url |-> url, task_id |-> 0,
   title |-> None, description |-> None, include_completed |-> TRUE,
   limit |-> 0, result |-> <<>>]

Idle == Request("none", "none", "none", "none")

Succeeded(r) == IF "success" \in DOMAIN r THEN r.success ELSE ~r.raised

\* one handler run to its end: its commit, its return value
Handle(k, req, o, removed) ==
  /\ last = Idle
  /\ o.nextId <= k.ids + 1
  /\ tasks' = o.tasks
  /\ nextId' = o.nextId
  /\ deleted' = deleted \cup removed
  /\ last' = [req EXCEPT !.result = o.result]
  /\ UNCHANGED now

AddTask(k) ==
  \E u \in Users, t \in k.titles, d \in k.descs :
    Handle(k, [Request("tool", "add_task", u, u) EXCEPT
                 !.title = Some(t), !.description = Some(d)],
           add_task(u, t, d), {})

ListTasks(k) ==
  \E u \in Users, inc \in BOOLEAN, lim \in Limits :
    \E o \in list_tasks(u, inc, lim) :
      Handle(k, [Request("tool", "list_tasks", u, u) EXCEPT
                   !.include_completed = inc, !.limit = lim],
             o, {})

CompleteTask(k) ==
  \E u \in Users, id \in 1..k.ids :
    Handle(k, [Request("tool", "complete_task", u, u) EXCEPT !.task_id = id],
           complete_task(u, id), {})

DeleteTask(k) ==
  \E u \in Users, id \in 1..k.ids :
    LET o == delete_task(u, id)
    IN Handle(k, [Request("tool", "delete_task", u, u) EXCEPT !.task_id = id],
              o, IF o.result.success THEN {id} ELSE {})

UpdateTask(k) ==
  \E u \in Users, id \in 1..k.ids, t \in Opt(k.titles), d \in Opt(k.descs) :
    Handle(k, [Request("tool", "update_task", u, u) EXCEPT
                 !.task_id = id, !.title = t, !.description = d],
           update_task(u, id, t, d), {})

HttpListTasks(k) ==
  \E url \in Users, u \in Users :
    Handle(k, Request("http", "list_tasks", u, url),
           http_list_tasks(url, u), {})

HttpCreateTask(k) ==
  \E url \in Users, u \in Users, t \in k.titles, d \in k.descs :
    Handle(k, [Request("http", "create_task", u, url) EXCEPT
                 !.title = Some(t), !.description = Some(d)],
           http_create_task(url, u, t, d), {})

HttpGetTask(k) ==
  \E url \in Users, u \in Users, id \in 1..k.ids :
    Handle(k, [Request("http", "get_task", u, url) EXCEPT !.task_id = id],
           http_get_task(url, u, id), {})

HttpUpdateTask(k) ==
  \E url \in Users, u \in Users, id \in 1..k.ids,
     t \in Opt(k.titles), d \in Opt(k.descs) :
    Handle(k, [Request("http", "update_task", u, url) EXCEPT
                 !.task_id = id, !.title = t, !.description = d],
           http_update_task(url, u, id, t, d), {})

HttpDeleteTask(k) ==
  \E url \in Users, u \in Users, id \in 1..k.ids :
    LET o == http_delete_task(url, u, id)
    IN Handle(k, [Request("http", "delete_task", u, url) EXCEPT
                    !.task_id = id],
              o, IF o.result.raised THEN {} ELSE {id})

HttpToggleComplete(k) ==
  \E url \in Users, u \in Users, id \in 1..k.ids :
    Handle(k, [Request("http", "toggle_complete", u, url) EXCEPT
                 !.task_id = id],
           toggle_complete(url, u, id), {})

\* time passes between two calls
Tick ==
  /\ last = Idle
  /\ now < MaxClock
  /\ now' = now + 1
  /\ UNCHANGED <<tasks, nextId, deleted, last>>

\* the caller has its answer; the next call can come
Return ==
  /\ last # Idle
  /\ last' = Idle
  /\ UNCHANGED <<tasks, nextId, now, deleted>>

Init ==
  /\ tasks = <<>>
  /\ nextId = 1
  /\ now = 0
  /\ deleted = {}
  /\ last = Idle

(***************************************************************************)
(* All the handlers of both paths, called in any order by the two users.   *)
(***************************************************************************)
Next ==
  \/ AddTask(Lifecycle)
  \/ ListTasks(Lifecycle)
  \/ CompleteTask(Lifecycle)
  \/ DeleteTask(Lifecycle)
  \/ UpdateTask(Lifecycle)
  \/ HttpListTasks(Lifecycle)
  \/ HttpCreateTask(Lifecycle)
  \/ HttpGetTask(Lifecycle)
  \/ HttpUpdateTask(Lifecycle)
  \/ HttpDeleteTask(Lifecycle)
  \/ HttpToggleComplete(Lifecycle)
  \/ Return

Spec == Init /\ [][Next]_vars

(***************************************************************************)
(* The agent's tools and the toggle route, with time passing between the   *)
(* calls, so that a stamp written by a call differs from the older ones.   *)
(***************************************************************************)
NextClock ==
  \/ AddTask(Timed)
  \/ ListTasks(Timed)
  \/ CompleteTask(Timed)
  \/ DeleteTask(Timed)
  \/ UpdateTask(Timed)
  \/ HttpToggleComplete(Timed)
  \/ Tick
  \/ Return

SpecClock == Init /\ [][NextClock]_vars

(***************************************************************************)
(* The two handlers that create a task, with the inputs on the length      *)
(* limits.                                                                 *)
(***************************************************************************)
NextFields ==
  \/ AddTask(OnLimits)
  \/ HttpCreateTask(OnLimits)
  \/ Return

SpecFields == Init /\ [][NextFields]_vars

(***************************************************************************)
(* Vocabulary of the properties.                                           *)
(***************************************************************************)
\* a step that handles one call
IsCall == last = Idle /\ last' # Idle

\* the operations addressed to one task id
Addressed ==
  {"complete_task", "delete_task", "update_task", "get_task", "toggle_complete"}

\* the two error kinds, read off the envelope's text or the response's status
ErrorKind(r) ==
  IF "success" \in DOMAIN r
    THEN IF r.success THEN "none"
         ELSE IF r.error \in {MsgTitleRequired, MsgTitleTooLong,
                              MsgDescTooLong, MsgNoField}
           THEN "ValidationError"
         ELSE IF r.error = MsgNotFound \/ Head(r.error) = "Task with ID "
           THEN "NotFound"
         ELSE "other"
  ELSE IF ~r.raised THEN "none"
  ELSE IF r.status_code = HTTP_422_UNPROCESSABLE THEN "ValidationError"
  ELSE IF r.status_code = HTTP_404_NOT_FOUND THEN "NotFound"
  ELSE "Forbidden"

\* the ids of the tasks a call's result shows to its caller
ReturnedIds(c) ==
  IF ~Succeeded(c.result) THEN {}
  ELSE IF c.path = "tool"
    THEN IF c.op = "list_tasks" THEN {t.id : t \in c.result.tasks}
         ELSE IF c.op = "delete_task" THEN {c.result.deleted_task_id}
         ELSE {c.result.task.id}
  ELSE IF c.op = "list_tasks" THEN {t.id : t \in c.result.body}
  ELSE IF c.op = "delete_task" THEN {}
  ELSE {c.result.body.id}

\* the owner of a task that is in the table before or after the step
OwnerOf(id) ==
  IF id \in DOMAIN tasks THEN tasks[id].user_id ELSE tasks'[id].user_id

(***************************************************************************)
(* C1: cross-user isolation.  Whatever call a user makes, on either path,  *)
(* every task of every other user is in the table afterwards with all its  *)
(* fields as before, no task appears under another user's name, and the    *)
(* result shows the caller only tasks of the caller's own.                 *)
(***************************************************************************)
C1_Isolation ==
  [][IsCall =>
       /\ \A i \in DOMAIN tasks :
            tasks[i].user_id # last'.user =>
              (i \in DOMAIN tasks' /\ tasks'[i] = tasks[i])
       /\ \A i \in DOMAIN tasks' \ DOMAIN tasks :
            tasks'[i].user_id = last'.user
       /\ \A i \in ReturnedIds(last') : OwnerOf(i) = last'.user]_vars

\* B has addressed a task of A, on each path, and the task is still A's
C1_Witness ==
  /\ last.op = "delete_task"
  /\ last.user = "B"
  /\ last.task_id \in DOMAIN tasks
  /\ tasks[last.task_id].user_id = "A"
  /\ tasks[last.task_id].completed

(***************************************************************************)
(* C2: ownership is indistinguishable from non-existence.  A task-addressed*)
(* call on a task of another user returns exactly what the same call       *)
(* returns when no task has that id.                                       *)
(***************************************************************************)
\* what the operation returns for an id that is not in the table
AbsentResult(c) ==
  IF c.path = "tool"
    THEN [success |-> FALSE, error |-> MsgIdNotFound(c.task_id)]
    ELSE HTTPException(HTTP_404_NOT_FOUND, DetailNotFound)

\* the call reached the lookup: its arguments passed the checks made before it
ReachedLookup(c) ==
  /\ c.op \in Addressed
  /\ c.url = c.user
  /\ ErrorKind(c.result) # "ValidationError"

C2_ForeignSameAsAbsent ==
  (/\ ReachedLookup(last)
   /\ last.task_id \in DOMAIN tasks
   /\ tasks[last.task_id].user_id # last.user)
  => /\ ErrorKind(last.result) = "NotFound"
     /\ last.result = AbsentResult(last)

(***************************************************************************)
(* C6: complete_task is idempotent, toggle_complete is not.  complete_task *)
(* on a task of the caller leaves it completed; on a pending task it sets  *)
(* completed, sets updated_at to the time of the call and reports "has     *)
(* been marked as completed"; on a completed task it changes nothing       *)
(* (updated_at included) and reports "was already completed".              *)
(* toggle_complete on a task of the caller flips completed every time.     *)
(***************************************************************************)
C6_CompleteIdempotent ==
  [][(/\ IsCall
      /\ last'.task_id \in DOMAIN tasks
      /\ tasks[last'.task_id].user_id = last'.user
      /\ last'.url = last'.user)
     => LET id == last'.task_id
            old == tasks[id]
        IN /\ last'.op = "complete_task" =>
                /\ last'.result.success
                /\ id \in DOMAIN tasks'
                /\ tasks'[id].completed
                /\ last'.result.task.completed
                /\ IF old.completed
                     THEN /\ tasks' = tasks
                          /\ last'.result.message = MsgAlreadyCompleted(old.title)
                     ELSE /\ tasks' = [tasks EXCEPT ![id] =
                                 [old EXCEPT !.completed = TRUE,
                                             !.updated_at = now]]
                          /\ last'.result.message = MsgMarkedCompleted(old.title)
           /\ last'.op = "toggle_complete" =>
                /\ ~last'.result.raised
                /\ tasks' = [tasks EXCEPT ![id] =
                       [old EXCEPT !.completed = ~old.completed,
                                   !.updated_at = now]]]_vars

\* a second complete_task, later than the first: the task keeps its older stamp
C6_Witness ==
  /\ last.op = "complete_task"
  /\ last.result.success
  /\ last.result.message = MsgAlreadyCompleted(tasks[last.task_id].title)
  /\ tasks[last.task_id].updated_at < now

(***************************************************************************)
(* C8: errors are values and have no effect.  A tool call that fails       *)
(* returns the envelope {success: false, error: <text>} of a               *)
(* ValidationError or a NotFound, and leaves the table as it was.          *)
(***************************************************************************)
C8_ToolFailureNoEffect ==
  [][(IsCall /\ last'.path = "tool" /\ ~last'.result.success)
     => /\ DOMAIN last'.result = {"success", "error"}
        /\ ErrorKind(last'.result) \in {"ValidationError", "NotFound"}
        /\ tasks' = tasks
        /\ nextId' = nextId
        /\ deleted' = deleted]_vars

\* a failed update of a task the caller owns and could have written
C8_Witness ==
  /\ last.path = "tool"
  /\ last.op = "update_task"
  /\ ~last.result.success
  /\ last.result.error = MsgDescTooLong
  /\ last.title.given
  /\ last.task_id \in DOMAIN tasks
  /\ tasks[last.task_id].user_id = last.user

(***************************************************************************)
(* C9: list_tasks returns only tasks of the caller; without                *)
(* include_completed none that is completed; at most limit of them; and    *)
(* total is the number returned, pending and completed count the returned  *)
(* tasks of each kind, so pending + completed = total.                     *)
(***************************************************************************)
C9_ListTasks ==
  (last.path = "tool" /\ last.op = "list_tasks")
  => LET r == last.result
     IN /\ r.success
        /\ \A t \in r.tasks :
             /\ t.id \in DOMAIN tasks
             /\ tasks[t.id].user_id = last.user
             /\ t.completed = tasks[t.id].completed
             /\ (~last.include_completed => ~t.completed)
        /\ Cardinality(r.tasks) <= last.limit
        /\ r.total = Cardinality(r.tasks)
        /\ r.pending = Cardinality({t \in r.tasks : ~t.completed})
        /\ r.completed = Cardinality({t \in r.tasks : t.completed})
        /\ r.pending + r.completed = r.total

\* the limit cut the list short, and the other user has a task too
C9_Witness ==
  /\ last.path = "tool"
  /\ last.op = "list_tasks"
  /\ last.limit = 1
  /\ last.result.total = 1
  /\ Cardinality({i \in DOMAIN tasks : tasks[i].user_id = last.user}) = 2

(***************************************************************************)
(* C10: delete removes for good.  An id whose delete succeeded is never in *)
(* the table again: every later call addressed to it, by any user on       *)
(* either path, fails with NotFound, and no list shows it; a user with no  *)
(* task left gets total = 0.                                               *)
(***************************************************************************)
C10_DeletePermanent ==
  [][/\ (IsCall /\ last'.op = "delete_task" /\ Succeeded(last'.result))
          => last'.task_id \notin DOMAIN tasks'
     /\ deleted' \cap DOMAIN tasks' = {}
     /\ IsCall =>
          /\ (/\ last'.op \in Addressed
              /\ last'.task_id \in deleted
              /\ last'.url = last'.user
              /\ ErrorKind(last'.result) # "ValidationError")
               => ErrorKind(last'.result) = "NotFound"
          /\ last'.op = "list_tasks" => ReturnedIds(last') \cap deleted = {}
          /\ (/\ last'.op = "list_tasks"
              /\ last'.path = "tool"
              /\ {i \in DOMAIN tasks : tasks[i].user_id = last'.user} = {})
               => last'.result.total = 0]_vars

\* a get of a deleted id, after the delete, answered 404
C10_Witness ==
  /\ last.op = "get_task"
  /\ last.task_id \in deleted
  /\ last.url = last.user
  /\ last.result.raised
  /\ last.result.status_code = HTTP_404_NOT_FOUND

(***************************************************************************)
(* C3: the HTTP path and the tool path validate and scope alike.  In every *)
(* state, for every caller and input, the tool and the route of the same   *)
(* operation both accept or both reject with the same error kind, and on   *)
(* acceptance leave the same table.                                        *)
(***************************************************************************)
PathsAgree(tool, http) ==
  /\ ErrorKind(tool.result) = ErrorKind(http.result)
  /\ ErrorKind(tool.result) = "none" => tool.tasks = http.tasks

C3_PathsAgree ==
  \A u \in Users :
    /\ \A t \in BoundaryTitles, d \in BoundaryDescs :
         PathsAgree(add_task(u, t, d), http_create_task(u, u, t, d))
    /\ \A id \in 1..MaxTasks :
         /\ PathsAgree(delete_task(u, id), http_delete_task(u, u, id))
         /\ \A t \in Opt(BoundaryTitles), d \in Opt(BoundaryDescs) :
              PathsAgree(update_task(u, id, t, d),
                         http_update_task(u, u, id, t, d))

(***************************************************************************)
(* C4: stored-field invariant.  Every task in the table has a title of 1   *)
(* to 200 characters after trimming and a description of at most 1000      *)
(* characters after trimming.                                              *)
(***************************************************************************)
C4_StoredFields ==
  \A i \in DOMAIN tasks :
    /\ Len(strip(tasks[i].title)) >= TITLE_MIN
    /\ Len(strip(tasks[i].title)) <= TITLE_MAX
    /\ Len(strip(tasks[i].description)) <= DESCRIPTION_MAX

(***************************************************************************)
(* C5: add_task.  As claimed: it succeeds exactly when the trimmed title   *)
(* has 1 to 200 characters and the trimmed description at most 1000.       *)
(***************************************************************************)
\* what a successful add_task leaves and returns
AddedAsGiven(c) ==
  LET r == c.result
      id == r.task.id
  IN /\ id \in DOMAIN tasks
     /\ tasks[id].id = id
     /\ tasks[id].user_id = c.user
     /\ tasks[id].title = strip(c.title.val)
     /\ tasks[id].description = strip(c.description.val)
     /\ tasks[id].completed = FALSE
     /\ tasks[id].created_at = tasks[id].updated_at
     /\ r.task = [id |-> id, title |-> tasks[id].title,
                  description |-> tasks[id].description,
                  completed |-> FALSE,
                  created_at |-> tasks[id].created_at]

C5_AddTaskTrimmedLengths ==
  (last.path = "tool" /\ last.op = "add_task")
  => LET valid == /\ Len(strip(last.title.val)) >= TITLE_MIN
                  /\ Len(strip(last.title.val)) <= TITLE_MAX
                  /\ Len(strip(last.description.val)) <= DESCRIPTION_MAX
     IN /\ last.result.success <=> valid
        /\ last.result.success => AddedAsGiven(last)
        /\ ~last.result.success => ErrorKind(last.result) = "ValidationError"

(***************************************************************************)
(* C5 as amended: add_task succeeds exactly when the title is not empty    *)
(* after trimming and has, as given, at most 200 characters, and the       *)
(* description has, as given, at most 1000 characters.  Then it stores and *)
(* returns a task with the trimmed fields, completed = false and           *)
(* created_at = updated_at; every other input fails with ValidationError.  *)
(***************************************************************************)
C5_AddTaskGivenLengths ==
  (last.path = "tool" /\ last.op = "add_task")
  => LET valid == /\ Len(strip(last.title.val)) >= TITLE_MIN
                  /\ Len(last.title.val) <= TITLE_MAX
                  /\ Len(last.description.val) <= DESCRIPTION_MAX
     IN /\ last.result.success <=> valid
        /\ last.result.success => AddedAsGiven(last)
        /\ ~last.result.success => ErrorKind(last.result) = "ValidationError"

\* a padded title of 200 characters as given was added, trimmed
C5_Witness ==
  /\ last.path = "tool"
  /\ last.op = "add_task"
  /\ last.result.success
  /\ Len(last.title.val) = TITLE_MAX
  /\ last.description.val # strip(last.description.val)
  /\ tasks[last.result.task.id].description = strip(last.description.val)

(***************************************************************************)
(* C7: update of a task of the caller.  With neither title nor description *)
(* it fails with ValidationError and changes nothing; with one of the two, *)
(* the other keeps its value; id, user_id, completed and created_at never  *)
(* change, and updated_at changes only when the update succeeds.           *)
(***************************************************************************)
C7_UpdateFrame ==
  [][(/\ IsCall
      /\ last'.op = "update_task"
      /\ last'.url = last'.user
      /\ last'.task_id \in DOMAIN tasks
      /\ tasks[last'.task_id].user_id = last'.user)
     => LET id == last'.task_id
            old == tasks[id]
            c == last'
        IN /\ id \in DOMAIN tasks'
           /\ (~c.title.given /\ ~c.description.given) =>
                /\ ErrorKind(c.result) = "ValidationError"
                /\ tasks' = tasks
           /\ ~c.title.given => tasks'[id].title = old.title
           /\ ~c.description.given => tasks'[id].description = old.description
           /\ tasks'[id].id = old.id
           /\ tasks'[id].user_id = old.user_id
           /\ tasks'[id].completed = old.completed
           /\ tasks'[id].created_at = old.created_at
           /\ IF Succeeded(c.result)
                THEN tasks'[id].updated_at = now
                ELSE tasks' = tasks]_vars

====
